---- MODULE Spec2Model ----
(***************************************************************************)
(* Neural Express: the deduplication, ranking and selection engine.        *)
(*                                                                         *)
(* Numbers.  Similarities are integers in units of 1/200, so that          *)
(* 0.82 = 164, 0.875 = 175.  Euclidean distances between unit-normalised   *)
(* embeddings are integers in units of 1/10; for unit vectors              *)
(* similarity = 1 - distance^2 / 2, i.e. Sim = 200 - Dist^2 in these       *)
(* units, and the distance threshold sqrt(2 * (1 - threshold)) has the     *)
(* square 200 - threshold.  published_at is an integer number of hours.    *)
(* Credibility is in units of 1/100.                                       *)
(***************************************************************************)
EXTENDS Integers, Sequences, FiniteSets, TLC

VARIABLES
    input,                  \* the list handed to deduplicate (field values on entry)
    items,                  \* the NewsItem objects of that list, with their current fields
    threshold,              \* Deduplicator.threshold
    story_chain_threshold,  \* Deduplicator.story_chain_threshold
    calls,                  \* number of deduplicate calls made so far
    mode,                   \* detect_story_chains of the last call
    out,                    \* the list the last call returned (indices into items)
    labels,                 \* cluster labels of the last standard-mode call
    groups,                 \* per founder of the last chain-mode call: what its pass found
    prev,                   \* the call before the last one: its configuration and result
    embed_calls,            \* the calls of EmbeddingModel.embed made by deduplicate, in order
    ranked_stories,         \* the list handed to the selection functions
    top_stories,            \* what select_top_stories returned
    secondary_stories,      \* what select_secondary_stories returned
    stage,                  \* "ranked", "top" (top selected), "secondary" (both selected)
    args,                   \* the arguments the selection calls were made with
    scored,                 \* the last calculate_composite_score call: arguments and result
    store,                  \* the VectorStore: dimension, index (its d and vectors), metadata list
    disk,                   \* the index and metadata artifacts on disk
    added,                  \* the vectors and metadata of the successful adds, in order
    saved,                  \* the last save: its path and the store it saved
    raised                  \* the exception the last call raised, with the state it found

dedupeVars == <<input, items, threshold, story_chain_threshold, calls, mode, out,
                labels, groups, prev, embed_calls>>

selectVars == <<ranked_stories, top_stories, secondary_stories, stage, args>>

scoreVars == <<scored>>

storeVars == <<store, disk, added, saved>>

vars == <<dedupeVars, selectVars, scoreVars, storeVars, raised>>

(***************************************************************************)
(* Bounds and input domains                                                *)
(***************************************************************************)
MaxItems == 3

None == <<>>

\* Nothing scored yet; no VectorStore constructed yet.
NoScore == [called |-> FALSE]

NoStore == [dimension |-> 0, d |-> 0, index |-> <<>>, metadata |-> <<>>]

\* No call has raised.
NoError == [error |-> ""]

\* No artifact on disk; nothing added; nothing saved.
NoDisk == [index |-> {}, metadata |-> {}]

NoneAdded == [rows |-> <<>>, metadata |-> <<>>]

NoSave == [called |-> FALSE]

\* The texts (title + content_snippet) an item can carry.  The embedding
\* provider maps equal texts to equal vectors; PoolDist is the Euclidean
\* distance (in 1/10) between the unit-normalised embeddings of two texts.
\* The table is realisable by unit vectors (its Gram matrix is positive
\* semidefinite).
Texts == 1..4

PoolDist ==
    << <<0, 6, 8, 9>>,
       <<6, 0, 4, 5>>,
       <<8, 4, 0, 7>>,
       <<9, 5, 7, 0>> >>

\* title[:50] of each text: texts 1 and 4 share their first 50 characters.
TitleOf == <<"ta", "tb", "tc", "ta">>

\* content_snippet of each text.
SnippetOf == <<"sa", "sb", "sc", "sd">>

\* engagement: the empty dict, or {"credibility": c}
Engagements == {<<>>, <<50>>, <<90>>}

PubHours == {0, 1, 30}

\* The duplicate thresholds a Deduplicator is constructed with: 0.82, and
\* for a second engine 0.875.
DupThresholds == {164}

AllThresholds == {164, 175}

ChainThresholds == {136}

\* The selection stage: lists of up to MaxRanked stories.
MaxRanked == 3

StoryIds == {1, 2, 3}

\* Composite scores and minimum scores, in units of 1/10.
Scores == {1, 2, 3}

MinScores == {2, 3}

\* top_count and secondary_count
Counts == {-1, 0, 1, 2}

\* id = md5(url)
IdOf(url) == <<"md5", url>>

NewItem(url, text, engagement, pub) ==
    [id |-> IdOf(url), url |-> url, title |-> TitleOf[text],
     content_snippet |-> SnippetOf[text], text |-> text,
     engagement |-> engagement, pub |-> pub, duplicates |-> <<>>, story_chain_id |-> None]

\* Item k of a list is an article of its own, or (k > 1) the article of
\* item 1 listed again (same url, any credibility).
ItemChoices(k, list) ==
    {NewItem(k, t, e, p) : t \in Texts, e \in Engagements, p \in PubHours}
    \cup (IF k = 1 THEN {}
          ELSE {NewItem(list[1].url, list[1].text, e, list[1].pub) : e \in Engagements})

(***************************************************************************)
(* Embeddings, similarity, time                                            *)
(***************************************************************************)
\* Euclidean distance between the unit-normalised embeddings of two items.
Dist(a, b) == PoolDist[a.text][b.text]

\* similarity_matrix[i][j]: cosine similarity of the normalised embeddings.
Sim(a, b) == 200 - Dist(a, b) * Dist(a, b)

Abs(x) == IF x < 0 THEN -x ELSE x

\* timedelta.days of a difference of h hours: the floor of h / 24.
Days(h) == h \div 24

\* time_diff = abs((item_i.published_at - item_j.published_at).days)
TimeDiff(a, b) == Abs(Days(a.pub - b.pub))

\* A missing credibility read as 0.
CredibilityOrZero(a) == IF a.engagement = <<>> THEN 0 ELSE a.engagement[1]

\* x.engagement.get("credibility", 0.5)
Credibility(a) == IF a.engagement = <<>> THEN 50 ELSE a.engagement[1]

Range(s) == {s[k] : k \in 1..Len(s)}

(***************************************************************************)
(* Deduplicator._select_best_item                                          *)
(***************************************************************************)
\* a sorts strictly before b under the key (-credibility, -timestamp).
KeyLess(a, b) ==
    \/ Credibility(a) > Credibility(b)
    \/ Credibility(a) = Credibility(b) /\ a.pub > b.pub

\* An unstable choice among the candidates of the smallest key: the first of
\* them in one run, the last of them in a later run.
SelectBestItemUnstable(cands, its) ==
    IF Len(cands) = 1 THEN cands[1]
    ELSE LET least(p) == \A q \in 1..Len(cands) : ~KeyLess(its[cands[q]], its[cands[p]])
             lo == CHOOSE p \in 1..Len(cands) : least(p) /\ \A r \in 1..(p - 1) : ~least(r)
             hi == CHOOSE p \in 1..Len(cands) :
                       least(p) /\ \A r \in (p + 1)..Len(cands) : ~least(r)
         IN IF calls = 0 THEN cands[lo] ELSE cands[hi]

\* sorted(items, key=...)[0]: the sort is stable, so among the items of the
\* smallest key the first of the list is returned.  cands is a list of
\* indices into its; the result is one of them.
SelectBestItem(cands, its) ==
    IF Len(cands) = 1 THEN cands[1]
    ELSE LET least(p) == \A q \in 1..Len(cands) : ~KeyLess(its[cands[q]], its[cands[p]])
             p == CHOOSE p \in 1..Len(cands) : least(p) /\ \A r \in 1..(p - 1) : ~least(r)
         IN cands[p]

\* The urls of all the members, the best item's own among them.
DuplicateUrlsOfAll(members, best, its) ==
    [k \in 1..Len(members) |-> its[members[k]].url]

\* The urls of all members but the first, as if the best item were the first.
DuplicateUrlsOfTail(members, best, its) ==
    [k \in 1..(Len(members) - 1) |-> its[members[k + 1]].url]

\* [item.url for item in members if item.id != best.id]
DuplicateUrls(members, best, its) ==
    LET others == SelectSeq(members, LAMBDA x : its[x].id # its[best].id)
    IN [k \in 1..Len(others) |-> its[others[k]].url]

(***************************************************************************)
(* Deduplicator._cluster_embeddings: average-linkage agglomerative         *)
(* clustering of the normalised embeddings, cut at the distance threshold  *)
(* sqrt(2 * (1 - threshold)); clusters whose linkage distance is at or     *)
(* above the threshold are not merged.                                     *)
(***************************************************************************)
\* A clustering is kept as the function root, which maps every item to the
\* smallest index of its cluster.
MembersOf(a, root) == SelectSeq([k \in 1..Len(root) |-> k], LAMBDA k : root[k] = a)

\* The sum of the distances of the first m pairs of A \X B (A, B lists of
\* indices).
RECURSIVE SumDist(_, _, _, _)
SumDist(m, A, B, its) ==
    IF m = 0 THEN 0
    ELSE SumDist(m - 1, A, B, its)
         + Dist(its[A[((m - 1) \div Len(B)) + 1]], its[B[((m - 1) % Len(B)) + 1]])

\* Average linkage of clusters a and b as a fraction <<sum, count>>.
Linkage(a, b, root, its) ==
    LET A == MembersOf(a, root)
        B == MembersOf(b, root)
    IN <<SumDist(Len(A) * Len(B), A, B, its), Len(A) * Len(B)>>

FracLess(f, g) == f[1] * g[2] < g[1] * f[2]

\* linkage distance < sqrt(2 * (1 - threshold)), by squares.
BelowDistanceThreshold(f, tau) == f[1] * f[1] < f[2] * f[2] * (200 - tau)

\* Merge the two clusters of the smallest linkage while that linkage is below
\* the distance threshold.  links holds <<a, b, linkage of a and b>>.
RECURSIVE Agglomerate(_, _, _)
Agglomerate(root, its, tau) ==
    LET links == {<<a, b, Linkage(a, b, root, its)>> :
                     a \in Range(root), b \in Range(root)}
        pairs == {l \in links : l[1] < l[2]}
        closest == {l \in pairs : \A m \in pairs : ~FracLess(m[3], l[3])}
        first == CHOOSE l \in closest : \A m \in closest :
                     l[1] < m[1] \/ (l[1] = m[1] /\ l[2] <= m[2])
    IN IF pairs = {} THEN root
       ELSE IF ~BelowDistanceThreshold(first[3], tau) THEN root
       ELSE Agglomerate([k \in 1..Len(root) |->
                            IF root[k] = first[2] THEN first[1] ELSE root[k]],
                        its, tau)

\* The label of every item: clusters are numbered from 0.  The library
\* decides which cluster gets which number (and which of two equal linkages
\* is merged first); here clusters are numbered in the order of their first
\* items, and the pair of the smallest indices is merged first.
ClusterEmbeddings(its, tau) ==
    IF Len(its) = 1 THEN <<0>>
    ELSE LET root == Agglomerate([k \in 1..Len(its) |-> k], its, tau)
         IN [k \in 1..Len(its) |-> Cardinality({r \in Range(root) : r < root[k]})]

(***************************************************************************)
(* Deduplicator._select_representatives                                    *)
(***************************************************************************)
\* The indices k of lbls with lbls[k] = c, ascending (np.where).
ClusterIndices(lbls, c) ==
    SelectSeq([k \in 1..Len(lbls) |-> k], LAMBDA k : lbls[k] = c)

RECURSIVE SelectRepresentativesFrom(_, _, _, _)
SelectRepresentativesFrom(c, its, lbls, reps) ==
    IF c \notin Range(lbls) THEN [items |-> its, out |-> reps]
    ELSE LET members == ClusterIndices(lbls, c)
             rep == SelectBestItem(members, its)
             its2 == [its EXCEPT ![rep].duplicates = DuplicateUrls(members, rep, its)]
         IN SelectRepresentativesFrom(c + 1, its2, lbls, Append(reps, rep))

\* np.unique(clusters) is 0, 1, ..., ascending.
SelectRepresentatives(its, lbls) == SelectRepresentativesFrom(0, its, lbls, <<>>)

(***************************************************************************)
(* Deduplicator._smart_deduplicate                                         *)
(***************************************************************************)
\* hashlib.md5(f"{title[:50]}{published_at}").hexdigest()[:8]: a function of
\* the title prefix and the timestamp.
ChainId(a) == <<"md5", a.title, a.pub>>

\* All later items j, processed or not.
LaterOfAll(i, n, processed) == [k \in 1..(n - i) |-> i + k]

\* The later items j of the scan of founder i that are not processed.
Later(i, n, processed) ==
    SelectSeq([k \in 1..(n - i) |-> i + k], LAMBDA j : j \notin processed)

\* similarity >= threshold and time_diff == 0
IsDuplicate(a, b, tau) == Sim(a, b) >= tau /\ TimeDiff(a, b) = 0

\* story_chain_threshold <= similarity < threshold and time_diff > 0
IsChainMember(a, b, tau, ctau) ==
    /\ ~IsDuplicate(a, b, tau)
    /\ ctau <= Sim(a, b) /\ Sim(a, b) < tau
    /\ TimeDiff(a, b) > 0

\* story_chains[chain_id].extend(members), a dict in insertion order.
ExtendChain(chains, id, members) ==
    IF \E k \in 1..Len(chains) : chains[k].id = id
    THEN [k \in 1..Len(chains) |->
            IF chains[k].id = id
            THEN [chains[k] EXCEPT !.members = chains[k].members \o members]
            ELSE chains[k]]
    ELSE Append(chains, [id |-> id, members |-> members])

\* One iteration of the outer loop for an unprocessed i.
FounderPass(i, st, tau, ctau) ==
    LET its == st.items
        later == Later(i, Len(its), st.processed)
        duplicates == SelectSeq(later, LAMBDA j : IsDuplicate(its[i], its[j], tau))
        chain_members ==
            <<i>> \o SelectSeq(later, LAMBDA j : IsChainMember(its[i], its[j], tau, ctau))
        duplicate_items == <<i>> \o duplicates
        best == SelectBestItem(duplicate_items, its)
        chained == Len(chain_members) > 1
        its2 == [its EXCEPT
                   ![best].duplicates = DuplicateUrls(duplicate_items, best, its),
                   ![best].story_chain_id =
                       IF chained THEN ChainId(its[best]) ELSE @]
    IN [items |-> its2,
        processed |-> st.processed \cup Range(duplicates) \cup {i},
        keep |-> Append(st.keep, best),
        chains |-> IF chained
                   THEN ExtendChain(st.chains, ChainId(its[best]), chain_members)
                   ELSE st.chains,
        groups |-> Append(st.groups,
                     [founder |-> i, unprocessed |-> Range(later),
                      duplicates |-> duplicates, chain_members |-> chain_members,
                      best |-> best])]

RECURSIVE FounderLoop(_, _, _, _)
FounderLoop(i, st, tau, ctau) ==
    IF i > Len(st.items) THEN st
    ELSE IF i \in st.processed THEN FounderLoop(i + 1, st, tau, ctau)
    ELSE FounderLoop(i + 1, FounderPass(i, st, tau, ctau), tau, ctau)

\* items[idx] in keep_items: list membership compares NewsItems field by
\* field (dataclass equality).
InKeep(its, idx, keep) == \E k \in 1..Len(keep) : its[keep[k]] = its[idx]

\* for idx in member_indices: if items[idx] in keep_items: set the chain id
RECURSIVE AssignMembers(_, _, _, _)
AssignMembers(its, id, members, keep) ==
    IF members = <<>> THEN its
    ELSE LET idx == Head(members)
             its2 == IF InKeep(its, idx, keep)
                     THEN [its EXCEPT ![idx].story_chain_id = id]
                     ELSE its
         IN AssignMembers(its2, id, Tail(members), keep)

\* for chain_id, member_indices in story_chains.items()
RECURSIVE AssignChains(_, _, _)
AssignChains(its, chains, keep) ==
    IF chains = <<>> THEN its
    ELSE AssignChains(AssignMembers(its, Head(chains).id, Head(chains).members, keep),
                      Tail(chains), keep)

SmartDeduplicate(its, tau, ctau) ==
    LET st == FounderLoop(1, [items |-> its, processed |-> {}, keep |-> <<>>,
                              chains |-> <<>>, groups |-> <<>>], tau, ctau)
    IN [items |-> AssignChains(st.items, st.chains, st.keep),
        out |-> st.keep,
        groups |-> st.groups]

(***************************************************************************)
(* Deduplicator.deduplicate                                                *)
(***************************************************************************)
NoRun == [threshold |-> 0, mode |-> FALSE, n |-> 0, result |-> <<>>]

\* The returned list, as the field values of its NewsItems.
Returned(its, o) == [k \in 1..Len(o) |-> its[o[k]]]

DedupResult(its, detect_story_chains, tau, ctau) ==
    IF its = <<>> THEN [items |-> its, out |-> <<>>, labels |-> <<>>, groups |-> <<>>]
    ELSE IF detect_story_chains
    THEN LET r == SmartDeduplicate(its, tau, ctau)
         IN [items |-> r.items, out |-> r.out, labels |-> <<>>, groups |-> r.groups]
    ELSE LET lbls == ClusterEmbeddings(its, tau)
             r == SelectRepresentatives(its, lbls)
         IN [items |-> r.items, out |-> r.out, labels |-> lbls, groups |-> <<>>]

\* Deduplicator._get_text_for_embedding: f"{item.title} {item.content_snippet}"
GetTextForEmbedding(item) == <<item.title, " ", item.content_snippet>>

\* One call of embed for every item, each with the text of that item.
EmbedCallsPerItem(its) ==
    [k \in 1..Len(its) |-> [texts |-> <<GetTextForEmbedding(its[k])>>, items |-> its]]

\* The calls of EmbeddingModel.embed that deduplicate makes on the list its:
\* none for the empty list, otherwise one with the texts of all items in
\* the order of the list, made with the items as they are on entry.
EmbedCalls(its) ==
    IF its = <<>> THEN <<>>
    ELSE <<[texts |-> [k \in 1..Len(its) |-> GetTextForEmbedding(its[k])],
            items |-> its]>>

\* deduplicate(items, detect_story_chains) on the list as ingested.
Deduplicate(detect_story_chains) ==
    /\ calls = 0
    /\ embed_calls' = embed_calls \o EmbedCalls(items)
    /\ \E r \in {DedupResult(items, detect_story_chains, threshold,
                             story_chain_threshold)} :
          /\ items' = r.items
          /\ out' = r.out
          /\ labels' = r.labels
          /\ groups' = r.groups
    /\ mode' = detect_story_chains
    /\ calls' = 1
    /\ UNCHANGED <<input, threshold, story_chain_threshold, prev>>
    /\ UNCHANGED selectVars
    /\ UNCHANGED <<scoreVars, storeVars, raised>>

\* A second run on an equal input (the same items in the same order, with
\* the fields they had on entry), by a Deduplicator with threshold tau, in
\* the same mode.
RunAgain(tau) ==
    /\ calls = 1
    /\ prev' = [threshold |-> threshold, mode |-> mode, n |-> Len(input),
                result |-> Returned(items, out)]
    /\ \E r \in {DedupResult(input, mode, tau, story_chain_threshold)} :
          /\ items' = r.items
          /\ out' = r.out
          /\ labels' = r.labels
          /\ groups' = r.groups
    /\ embed_calls' = embed_calls \o EmbedCalls(input)
    /\ threshold' = tau
    /\ calls' = 2
    /\ UNCHANGED <<input, mode, story_chain_threshold>>
    /\ UNCHANGED selectVars
    /\ UNCHANGED <<scoreVars, storeVars, raised>>

\* The same Deduplicator runs again.
Rerun == RunAgain(threshold)

\* A Deduplicator with another duplicate threshold runs on the same input.
RerunWithThreshold == \E tau \in AllThresholds : RunAgain(tau)

(***************************************************************************)
(* Deduplicator.deduplicate when the embedding provider raises             *)
(***************************************************************************)
\* The items with their duplicates and story_chain_id cleared.
ItemsCleared(its) ==
    [k \in 1..Len(its) |-> [its[k] EXCEPT !.duplicates = <<>>, !.story_chain_id = None]]

\* The items when embed is called: the texts have been read, no field of an
\* item has been assigned.
ItemsAtEmbed(its) == its

\* deduplicate on a non-empty list (the list as ingested, or the same list
\* after a first run) when EmbeddingModel.embed raises: the exception
\* passes through deduplicate, which returns nothing.
DeduplicateEmbedRaises(detect_story_chains) ==
    /\ calls < 2
    /\ raised = NoError
    /\ items # <<>>
    /\ raised' = [error |-> "EmbeddingError", before |-> items, out |-> out]
    /\ items' = ItemsAtEmbed(items)
    /\ embed_calls' = embed_calls \o EmbedCalls(items)
    /\ calls' = calls + 1
    /\ UNCHANGED <<input, threshold, story_chain_threshold, mode, out, labels,
                   groups, prev>>
    /\ UNCHANGED <<selectVars, scoreVars, storeVars>>

(***************************************************************************)
(* rank/select.py: select_top_stories, select_secondary_stories            *)
(***************************************************************************)
\* seq[:n], also for a negative n.
SliceTo(seq, n) ==
    LET m == IF n >= 0
             THEN (IF n < Len(seq) THEN n ELSE Len(seq))
             ELSE (IF Len(seq) + n > 0 THEN Len(seq) + n ELSE 0)
    IN SubSeq(seq, 1, m)

\* The last top_count qualifying stories instead of the first.
SelectTopStoriesFromEnd(ranked, top_count, min_score) ==
    LET filtered == SelectSeq(ranked, LAMBDA story : story.score >= min_score)
        n == Len(SliceTo(filtered, top_count))
    IN SubSeq(filtered, Len(filtered) - n + 1, Len(filtered))

\* The slice taken before the filter.
SelectTopStoriesSliceFirst(ranked, top_count, min_score) ==
    SelectSeq(SliceTo(ranked, top_count), LAMBDA story : story.score >= min_score)

SelectTopStories(ranked, top_count, min_score) ==
    LET filtered == SelectSeq(ranked, LAMBDA story : story.score >= min_score)
    IN SliceTo(filtered, top_count)

\* The slice taken before the top ids and the minimum score are applied.
SelectSecondaryStoriesSliceFirst(ranked, top, secondary_count, min_score) ==
    LET top_ids == {top[k].id : k \in 1..Len(top)}
    IN SelectSeq(SliceTo(ranked, secondary_count), LAMBDA story :
           story.id \notin top_ids /\ story.score >= min_score)

\* Top stories excluded by comparing whole stories, not ids.
SelectSecondaryStoriesByStory(ranked, top, secondary_count, min_score) ==
    LET candidates == SelectSeq(ranked, LAMBDA story :
                          story \notin Range(top) /\ story.score >= min_score)
    IN SliceTo(candidates, secondary_count)

SelectSecondaryStories(ranked, top, secondary_count, min_score) ==
    LET top_ids == {top[k].id : k \in 1..Len(top)}
        candidates == SelectSeq(ranked, LAMBDA story :
                          story.id \notin top_ids /\ story.score >= min_score)
    IN SliceTo(candidates, secondary_count)

\* A RankedStory: the id of its news_item and its composite score (in 1/10).
RankedStory(id, score) == [id |-> id, score |-> score]

NoArgs == [ranked |-> <<>>, top_count |-> 0, min_score_top |-> 0,
           secondary_count |-> 0, min_score_secondary |-> 0]

\* One more RankedStory in the list that will be handed to selection.
AppendRanked ==
    /\ stage = "ranked"
    /\ Len(ranked_stories) < MaxRanked
    /\ \E id \in StoryIds, score \in Scores :
           ranked_stories' = Append(ranked_stories, RankedStory(id, score))
    /\ UNCHANGED <<top_stories, secondary_stories, stage, args>>
    /\ UNCHANGED dedupeVars
    /\ UNCHANGED <<scoreVars, storeVars, raised>>

\* top_stories = select_top_stories(ranked_stories, top_count, min_score)
SelectTop(top_count, min_score) ==
    /\ stage = "ranked"
    /\ top_stories' = SelectTopStories(ranked_stories, top_count, min_score)
    /\ args' = [args EXCEPT !.ranked = ranked_stories, !.top_count = top_count,
                            !.min_score_top = min_score]
    /\ stage' = "top"
    /\ UNCHANGED <<ranked_stories, secondary_stories>>
    /\ UNCHANGED dedupeVars
    /\ UNCHANGED <<scoreVars, storeVars, raised>>

\* secondary_stories = select_secondary_stories(ranked_stories, top_stories,
\*                                              secondary_count, min_score)
SelectSecondary(secondary_count, min_score) ==
    /\ stage = "top"
    /\ secondary_stories' =
           SelectSecondaryStories(ranked_stories, top_stories, secondary_count, min_score)
    /\ args' = [args EXCEPT !.secondary_count = secondary_count,
                            !.min_score_secondary = min_score]
    /\ stage' = "secondary"
    /\ UNCHANGED <<ranked_stories, top_stories>>
    /\ UNCHANGED dedupeVars
    /\ UNCHANGED <<scoreVars, storeVars, raised>>

(***************************************************************************)
(* dedupe/store.py: VectorStore                                            *)
(***************************************************************************)
\* The store holds, and is passed, at most MaxStored vectors; one add passes
\* up to MaxBatch.
MaxStored == 3

MaxBatch == 2

\* Embedding dimensions.
Dimensions == {2, 3}

\* An embeddings array: its shape, <<n, d>> or for a one-dimensional array
\* <<n>>, and for each of its n rows the text whose embedding the row is.
StoredTexts == {1, 2}

EmbeddingArrays ==
    {[shape |-> <<n, d>>, rows |-> r] :
        n \in 0..MaxBatch, d \in Dimensions, r \in UNION {[1..m -> StoredTexts] : m \in 0..MaxBatch}}
    \cup {[shape |-> <<n>>, rows |-> <<>>] : n \in {0, MaxBatch}}

\* A well-formed array has one row per unit of its first axis.
WellFormed(embeddings) ==
    Len(embeddings.shape) = 2 => Len(embeddings.rows) = embeddings.shape[1]

\* Metadata lists: one dict per vector, here the id of the item.
MetadataLists == UNION {[1..m -> {[id |-> i] : i \in StoredTexts}] : m \in 0..MaxBatch}

\* VectorStore(dimension): self.dimension, a flat L2 index of that dimension
\* (d) without vectors, and an empty metadata list.
VectorStoreInit(dimension) ==
    [dimension |-> dimension, d |-> dimension, index |-> <<>>, metadata |-> <<>>]

\* VectorStore.size(): index.ntotal
Size(s) == Len(s.index)

\* add with the metadata extended before the arguments are checked.
VectorStoreAddUnchecked(s, embeddings, metadata) ==
    IF embeddings.shape[1] # Len(metadata)
    THEN [error |-> "ValueError", store |-> [s EXCEPT !.metadata = @ \o metadata]]
    ELSE IF Len(embeddings.shape) < 2
    THEN [error |-> "IndexError", store |-> [s EXCEPT !.metadata = @ \o metadata]]
    ELSE [error |-> "",
          store |-> [s EXCEPT !.index = @ \o embeddings.rows, !.metadata = @ \o metadata]]

\* add that leaves out the vectors the index already holds.
VectorStoreAddDistinct(s, embeddings, metadata) ==
    IF embeddings.shape[1] # Len(metadata)
    THEN [error |-> "ValueError", store |-> s]
    ELSE IF Len(embeddings.shape) < 2
    THEN [error |-> "IndexError", store |-> s]
    ELSE IF embeddings.shape[2] # s.dimension
    THEN [error |-> "ValueError", store |-> s]
    ELSE LET new == {k \in 1..Len(metadata) : embeddings.rows[k] \notin Range(s.index)}
         IN [error |-> "",
             store |-> [s EXCEPT !.index = @ \o SelectSeq(embeddings.rows,
                                                 LAMBDA t : t \notin Range(s.index)),
                                 !.metadata = @ \o SelectSeq(metadata,
                                                 LAMBDA m : \E k \in new : metadata[k] = m)]]

\* VectorStore.add: the error it raises ("" for none) and the store after
\* it.  len(embeddings) is the first axis; embeddings.shape[1] of a
\* one-dimensional array raises IndexError; index.add asserts that the
\* vectors have the dimension of the index.
VectorStoreAdd(s, embeddings, metadata) ==
    IF embeddings.shape[1] # Len(metadata)
    THEN [error |-> "ValueError", store |-> s]
    ELSE IF Len(embeddings.shape) < 2
    THEN [error |-> "IndexError", store |-> s]
    ELSE IF embeddings.shape[2] # s.dimension
    THEN [error |-> "ValueError", store |-> s]
    ELSE IF embeddings.shape[2] # s.d
    THEN [error |-> "AssertionError", store |-> s]
    ELSE [error |-> "",
          store |-> [s EXCEPT !.index = @ \o embeddings.rows,
                              !.metadata = @ \o metadata]]

\* Query embeddings: a vector of d numbers, the embedding of a text, or the
\* 1 x d array embed returns for a single text.
QueryTexts == {2, 3}

QueryEmbeddings ==
    {[shape |-> <<d>>, text |-> t] : d \in Dimensions, t \in QueryTexts}
    \cup {[shape |-> <<1, d>>, text |-> t] : d \in Dimensions, t \in QueryTexts}

\* k, positive; threshold, None or a similarity.
SearchKs == {1, 2, 4}

SearchThresholds == {<<>>, <<164>>}

\* The squared L2 distance (in 1/100) between the normalised vectors of two
\* texts.
SquaredL2(a, b) == PoolDist[a][b] * PoolDist[a][b]

\* The k stored vectors nearest to the query, farthest first.
IndexSearchFarthestFirst(index, text, k) ==
    LET n == Len(index)
        m == IF k <= n THEN k ELSE n
        d(i) == SquaredL2(text, index[i])
        Before(i, j) == d(i) < d(j) \/ (d(i) = d(j) /\ i < j)
        Place(i) == 1 + Cardinality({j \in 1..n : Before(j, i)})
        At(p) == CHOOSE i \in 1..n : Place(i) = m + 1 - p
    IN [p \in 1..k |-> IF p <= m THEN [dist |-> d(At(p)), idx |-> At(p)]
                       ELSE [dist |-> 400, idx |-> -1]]

\* index.search(query, k) of a flat L2 index: the k stored vectors nearest
\* to the query by squared L2 distance, nearest first, as (distance, index)
\* pairs, filled up with index -1 when fewer than k vectors are stored.
IndexSearch(index, text, k) ==
    LET n == Len(index)
        d(i) == SquaredL2(text, index[i])
        Before(i, j) == d(i) < d(j) \/ (d(i) = d(j) /\ i < j)
        Place(i) == 1 + Cardinality({j \in 1..n : Before(j, i)})
        At(p) == CHOOSE i \in 1..n : Place(i) = p
    IN [p \in 1..k |-> IF p <= n THEN [dist |-> d(At(p)), idx |-> At(p)]
                       ELSE [dist |-> 400, idx |-> -1]]

\* The loop of search over the hits from position p on: it stops at index
\* -1, skips a hit whose similarity 1 - dist / 2 is below the threshold and
\* appends (metadata[idx], similarity) otherwise.
RECURSIVE SearchLoop(_, _, _, _, _)
SearchLoop(s, hits, p, tau, results) ==
    IF p > Len(hits) \/ hits[p].idx = -1
    THEN results
    ELSE LET similarity == 200 - hits[p].dist
         IN IF tau # None /\ similarity < tau[1]
            THEN SearchLoop(s, hits, p + 1, tau, results)
            ELSE SearchLoop(s, hits, p + 1, tau,
                            Append(results, [metadata |-> s.metadata[hits[p].idx],
                                             similarity |-> similarity]))

\* reshape(1, -1): the length of the one row an array of this shape becomes.
RowLength(shape) == IF Len(shape) = 1 THEN shape[1] ELSE shape[1] * shape[2]

\* VectorStore.search: the error it raises ("" for none) and the list it
\* returns.  The query is reshaped to one row; index.search asserts that
\* the row has the dimension of the index.
VectorStoreSearch(s, query_embedding, k, tau) ==
    IF query_embedding.shape[1] # s.dimension
    THEN [error |-> "ValueError", results |-> <<>>]
    ELSE IF RowLength(query_embedding.shape) # s.d
    THEN [error |-> "AssertionError", results |-> <<>>]
    ELSE [error |-> "",
          results |-> SearchLoop(s, IndexSearch(s.index, query_embedding.text, k),
                                 1, tau, <<>>)]

\* store = VectorStore(dimension)
NewVectorStore ==
    /\ store = NoStore
    /\ \E dimension \in Dimensions : store' = VectorStoreInit(dimension)
    /\ added' = NoneAdded
    /\ UNCHANGED <<dedupeVars, selectVars, scoreVars, disk, saved, raised>>

\* store.add(embeddings, metadata), for any array and any metadata list.
Add ==
    /\ store # NoStore
    /\ \E embeddings \in {e \in EmbeddingArrays : WellFormed(e)},
          metadata \in MetadataLists :
          /\ Size(store) + Len(embeddings.rows) <= MaxStored
          /\ \E r \in {VectorStoreAdd(store, embeddings, metadata)} :
                /\ store' = r.store
                /\ raised' = [error |-> r.error, call |-> "add", before |-> store,
                              embeddings |-> embeddings, metadata |-> metadata]
                /\ added' = IF r.error = ""
                             THEN [rows |-> added.rows \o embeddings.rows,
                                   metadata |-> added.metadata \o metadata]
                             ELSE added
    /\ UNCHANGED <<dedupeVars, selectVars, scoreVars, disk, saved>>

\* store.search(query_embedding, k, threshold)
Search ==
    /\ store # NoStore
    /\ \E query_embedding \in QueryEmbeddings, k \in SearchKs,
          tau \in SearchThresholds :
          \E r \in {VectorStoreSearch(store, query_embedding, k, tau)} :
              raised' = [error |-> r.error, call |-> "search", before |-> store,
                         query_embedding |-> query_embedding, k |-> k,
                         threshold |-> tau, results |-> r.results]
    /\ UNCHANGED <<dedupeVars, selectVars, scoreVars, storeVars>>

\* File paths: a stem and a suffix.  Path.with_suffix replaces the suffix.
Paths == {[stem |-> "a", suffix |-> ""], [stem |-> "a", suffix |-> ".bak"]}

WithSuffix(filepath, suffix) == [filepath EXCEPT !.suffix = suffix]

\* Files are (path, data) pairs; writing a file replaces the one at its path.
Exists(files, path) == \E f \in files : f.path = path

ReadFile(files, path) == (CHOOSE f \in files : f.path = path).data

WriteFile(files, path, data) ==
    {f \in files : f.path # path} \cup {[path |-> path, data |-> data]}

\* utils/io.py load_pickle: None when the file does not exist.
LoadPickle(files, path) == IF Exists(files, path) THEN ReadFile(files, path) ELSE None

\* x or []
OrEmptyList(x) == IF x = None THEN <<>> ELSE x

\* VectorStore.save: the disk after it.  The index artifact holds the
\* dimension of the index and its vectors, the metadata artifact the list.
VectorStoreSave(s, dsk, filepath) ==
    LET index_path == WithSuffix(filepath, ".index")
        metadata_path == WithSuffix(filepath, ".metadata")
    IN [index |-> WriteFile(dsk.index, index_path, [d |-> s.d, rows |-> s.index]),
        metadata |-> WriteFile(dsk.metadata, metadata_path, s.metadata)]

\* load that reads whichever artifact exists.
VectorStoreLoadWhatExists(s, dsk, filepath) ==
    LET index_path == WithSuffix(filepath, ".index")
        metadata_path == WithSuffix(filepath, ".metadata")
        i == IF Exists(dsk.index, index_path)
             THEN [s EXCEPT !.d = ReadFile(dsk.index, index_path).d,
                            !.index = ReadFile(dsk.index, index_path).rows]
             ELSE s
    IN [i EXCEPT !.metadata = OrEmptyList(LoadPickle(dsk.metadata, metadata_path))]

\* load that reads the index and keeps the metadata list of the store.
VectorStoreLoadIndexOnly(s, dsk, filepath) ==
    LET index_path == WithSuffix(filepath, ".index")
        metadata_path == WithSuffix(filepath, ".metadata")
    IN IF ~Exists(dsk.index, index_path) \/ ~Exists(dsk.metadata, metadata_path)
       THEN s
       ELSE [s EXCEPT !.d = ReadFile(dsk.index, index_path).d,
                      !.index = ReadFile(dsk.index, index_path).rows]

\* VectorStore.load: the store after it.  It returns without a change when
\* one of the two artifacts does not exist; otherwise the index read and the
\* list unpickled replace those of the store, self.dimension stays.
VectorStoreLoad(s, dsk, filepath) ==
    LET index_path == WithSuffix(filepath, ".index")
        metadata_path == WithSuffix(filepath, ".metadata")
    IN IF ~Exists(dsk.index, index_path) \/ ~Exists(dsk.metadata, metadata_path)
       THEN s
       ELSE [s EXCEPT !.d = ReadFile(dsk.index, index_path).d,
                      !.index = ReadFile(dsk.index, index_path).rows,
                      !.metadata = OrEmptyList(LoadPickle(dsk.metadata, metadata_path))]

\* Another VectorStore(dimension) takes the place of the store.
FreshVectorStore ==
    /\ store # NoStore
    /\ \E dimension \in Dimensions : store' = VectorStoreInit(dimension)
    /\ store' # store
    /\ added' = NoneAdded
    /\ raised' = [error |-> "", call |-> "init"]
    /\ UNCHANGED <<dedupeVars, selectVars, scoreVars, disk, saved>>

\* The arrays and lists build_vector_store passes to add: one vector and
\* one metadata record per item, of the dimension of the store.
ItemArrays(dimension) ==
    {e \in EmbeddingArrays : e.shape = <<Len(e.rows), dimension>> /\ e.rows # <<>>}

ItemMetadata(rows) == [k \in 1..Len(rows) |-> [id |-> rows[k]]]

\* store.add(embeddings, metadata) with the vectors and metadata of items.
AddItems ==
    /\ store # NoStore
    /\ \E embeddings \in ItemArrays(store.dimension) :
          /\ Size(store) + Len(embeddings.rows) <= MaxStored
          /\ Len(added.rows) + Len(embeddings.rows) <= MaxStored
          /\ \E r \in {VectorStoreAdd(store, embeddings, ItemMetadata(embeddings.rows))} :
                /\ store' = r.store
                /\ raised' = [error |-> r.error, call |-> "add", before |-> store,
                              embeddings |-> embeddings,
                              metadata |-> ItemMetadata(embeddings.rows)]
                /\ added' = IF r.error = ""
                             THEN [rows |-> added.rows \o embeddings.rows,
                                   metadata |-> added.metadata
                                                \o ItemMetadata(embeddings.rows)]
                             ELSE added
    /\ UNCHANGED <<dedupeVars, selectVars, scoreVars, disk, saved>>

\* store.save(filepath)
Save ==
    /\ store # NoStore
    /\ \E filepath \in Paths :
          /\ disk' = VectorStoreSave(store, disk, filepath)
          /\ saved' = [called |-> TRUE, filepath |-> filepath, store |-> store]
          /\ raised' = [error |-> "", call |-> "save", filepath |-> filepath]
    /\ UNCHANGED <<dedupeVars, selectVars, scoreVars, store, added>>

\* store.load(filepath)
Load ==
    /\ store # NoStore
    /\ \E filepath \in Paths :
          /\ store' = VectorStoreLoad(store, disk, filepath)
          /\ raised' = [error |-> "", call |-> "load", before |-> store,
                        filepath |-> filepath,
                        index_exists |->
                            Exists(disk.index, WithSuffix(filepath, ".index")),
                        metadata_exists |->
                            Exists(disk.metadata, WithSuffix(filepath, ".metadata"))]
    /\ UNCHANGED <<dedupeVars, selectVars, scoreVars, disk, added, saved>>

\* One artifact is removed from the disk; the last save is no longer whole.
RemoveArtifact ==
    /\ \/ \E f \in disk.index : disk' = [disk EXCEPT !.index = @ \ {f}]
       \/ \E f \in disk.metadata : disk' = [disk EXCEPT !.metadata = @ \ {f}]
    /\ saved' = NoSave
    /\ UNCHANGED <<dedupeVars, selectVars, scoreVars, store, added, raised>>

(***************************************************************************)
(* rank/score.py                                                           *)
(***************************************************************************)
\* The score 1.0.  Scores are integers in units of 1/76800 = 1/(2^10 * 75):
\* on the inputs of this model every quotient below is exact (cluster sizes
\* up to 6, keyword lists of up to 3 keywords, credibilities in 1/100,
\* halvings up to 2^10).  A composite score is in units of 1/100 of that.
One == 76800

MaxDuplicates == 4

MaxKeywords == 2

\* time_window_hours
TimeWindows == {20, 24}

\* The ages in hours (negative: published in the future) at which an item is
\* scored under window w: up to the window, and past it by the amounts for
\* which excess / (w * 0.1) is an integer.
AgesFor(w) == {-1, 0, w} \cup {w + e : e \in {x \in 1..w : (10 * x) % w = 0}}

\* engagement of a scored item: the empty dict, or {"credibility": c}
ScoreEngagements == {<<>>, <<0>>, <<50>>, <<100>>}

\* The keywords (lower-cased) each text contains as a substring of
\* f"{title} {content_snippet}".lower(), besides the empty string, which
\* every text contains.
Mentions == <<{"ai"}, {"ai", "chips"}, {}, {"ai"}>>

KeywordPool == {"AI", "ai", "chips", ""}

\* keyword.lower()
Lower(keyword) == IF keyword = "AI" THEN "ai" ELSE keyword

KeywordLists == UNION {[1..n -> KeywordPool] : n \in 0..MaxKeywords}

\* The weights dict: weights.get(key, default) falls back to the default.
DefaultWeights == [recency |-> 30, credibility |-> 25, engagement |-> 15,
                   uniqueness |-> 15, relevance |-> 15]

WeightDicts == {DefaultWeights, [recency |-> 30]}

WeightGet(weights, key) ==
    IF key \in DOMAIN weights THEN weights[key] ELSE DefaultWeights[key]

Min(a, b) == IF a <= b THEN a ELSE b

Max(a, b) == IF a >= b THEN a ELSE b

\* The decay applied from the moment of publication, not from the window.
RecencyDecayFromPublication(item, now, time_window_hours) ==
    LET age_hours == IF now - item.pub < 0 THEN 0 ELSE now - item.pub
    IN Max(0, Min(One, One \div (2 ^ ((10 * age_hours) \div time_window_hours))))

\* calculate_recency_score, with now = datetime.now() in hours.
CalculateRecencyScore(item, now, time_window_hours) ==
    LET age_hours == IF now - item.pub < 0 THEN 0 ELSE now - item.pub
    IN IF age_hours <= time_window_hours THEN One
       ELSE LET excess_hours == age_hours - time_window_hours
                score == One \div (2 ^ ((10 * excess_hours) \div time_window_hours))
            IN Max(0, Min(One, score))

\* item.engagement.get("credibility", 0.5)
CalculateCredibilityScore(item) == Credibility(item) * (One \div 100)

CalculateEngagementScore(item) == One \div 2

\* The item itself left out of the cluster size.
UniquenessWithoutSelf(item) == One \div (Len(item.duplicates) + 2)

CalculateUniquenessScore(item) ==
    LET cluster_size == Len(item.duplicates) + 1
    IN One \div cluster_size

\* keyword.lower() in text
KeywordMatches(item, keyword) ==
    Lower(keyword) = "" \/ Lower(keyword) \in Mentions[item.text]

\* The density doubled and not capped at 1.0.
RelevanceUncapped(item, keywords) ==
    IF keywords = <<>> THEN One \div 2
    ELSE (2 * Cardinality({k \in 1..Len(keywords) : KeywordMatches(item, keywords[k])})
            * One) \div Len(keywords)

CalculateRelevanceScore(item, keywords) ==
    LET matches == Cardinality({k \in 1..Len(keywords) :
                                   KeywordMatches(item, keywords[k])})
    IN IF keywords = <<>> THEN One \div 2
       ELSE Min(One, (2 * matches * One) \div Len(keywords))

CalculateCompositeScore(item, weights, time_window_hours, relevance_keywords, now) ==
    LET recency == CalculateRecencyScore(item, now, time_window_hours)
        credibility == CalculateCredibilityScore(item)
        engagement == CalculateEngagementScore(item)
        uniqueness == CalculateUniquenessScore(item)
        relevance == CalculateRelevanceScore(item, relevance_keywords)
        score == WeightGet(weights, "recency") * recency
                 + WeightGet(weights, "credibility") * credibility
                 + WeightGet(weights, "engagement") * engagement
                 + WeightGet(weights, "uniqueness") * uniqueness
                 + WeightGet(weights, "relevance") * relevance
    IN [score |-> score, recency_score |-> recency, credibility_score |-> credibility,
        engagement_score |-> engagement, uniqueness_score |-> uniqueness,
        relevance_score |-> relevance]

\* An item with n recorded duplicates, published at hour 0.
ScoredItems ==
    {[NewItem(1, t, e, 0) EXCEPT !.duplicates = [k \in 1..n |-> k + 1]] :
        t \in Texts, e \in ScoreEngagements, n \in 0..MaxDuplicates}

\* The call of calculate_composite_score on one item.
ScoreItem ==
    /\ ~scored.called
    /\ \E item \in ScoredItems, weights \in WeightDicts, w \in TimeWindows,
          keywords \in KeywordLists :
          \E now \in AgesFor(w) :
              scored' = [called |-> TRUE, item |-> item, weights |-> weights,
                         time_window_hours |-> w, keywords |-> keywords, now |-> now,
                         result |-> CalculateCompositeScore(item, weights, w,
                                                            keywords, now)]
    /\ UNCHANGED <<dedupeVars, selectVars, storeVars, raised>>

(***************************************************************************)
(* rank/select.py: rank_stories, and the ranking and selection stage       *)
(***************************************************************************)
\* RankedStory(news_item=item, score=..., ...) for item k of the list that
\* is ranked; news_item is the position of the item in that list.
RankedStoryOf(its, k, scores) ==
    [news_item |-> k, id |-> its[k].id, score |-> scores.score,
     recency_score |-> scores.recency_score,
     credibility_score |-> scores.credibility_score,
     engagement_score |-> scores.engagement_score,
     uniqueness_score |-> scores.uniqueness_score,
     relevance_score |-> scores.relevance_score]

\* The stories in ascending order of score.
SortByScoreAscending(ranked) ==
    LET place(k) == Cardinality({j \in 1..Len(ranked) : ranked[j].score < ranked[k].score})
                    + Cardinality({j \in 1..(k - 1) : ranked[j].score = ranked[k].score})
                    + 1
    IN [p \in 1..Len(ranked) |-> ranked[CHOOSE k \in 1..Len(ranked) : place(k) = p]]

\* ranked.sort(key=lambda x: x.score, reverse=True): the sort is stable, so
\* stories of equal score stay in the order they had.
SortByScoreDescending(ranked) ==
    LET place(k) == Cardinality({j \in 1..Len(ranked) : ranked[j].score > ranked[k].score})
                    + Cardinality({j \in 1..(k - 1) : ranked[j].score = ranked[k].score})
                    + 1
    IN [p \in 1..Len(ranked) |-> ranked[CHOOSE k \in 1..Len(ranked) : place(k) = p]]

\* rank_stories: the ranked list, or the exception of the log line that
\* reads ranked[0] of an empty list.
RankStories(its, weights, time_window_hours, relevance_keywords, now) ==
    LET ranked == [k \in 1..Len(its) |->
                      RankedStoryOf(its, k,
                          CalculateCompositeScore(its[k], weights, time_window_hours,
                                                  relevance_keywords, now))]
    IN IF its = <<>> THEN [error |-> "IndexError", ranked |-> <<>>]
       ELSE [error |-> "", ranked |-> SortByScoreDescending(ranked)]

\* The time window of a run: time_windows.daily, or time_windows.weekly in
\* the mode that detects story chains.
TimeWindowOf(weekly) == IF weekly THEN 168 ELSE 24

\* The hour at which the stage runs: every item has passed
\* filter_by_time_window, being younger than the window or of the future.
PipelineNows == {20}

PipelineKeywords == {<<>>, <<"ai", "chips">>}

\* selection.top_stories and selection.secondary_stories
PipelineCounts == {1}

\* The minimum scores of the top and the secondary selection.
PipelineMinScores == {<<30 * One, 20 * One>>, <<75 * One, 75 * One>>}

\* Steps 4 and 5 of NeuralExpress.run on the list deduplicate returned:
\* rank_stories, select_top_stories, select_secondary_stories.  An exception
\* ends the run.
RankAndSelect(keywords, now, top_count, secondary_count, min_scores) ==
    /\ calls = 1
    /\ stage = "ranked"
    /\ raised = NoError
    /\ \E r \in {RankStories(Returned(items, out), DefaultWeights, TimeWindowOf(mode),
                             keywords, now)} :
          IF r.error # ""
          THEN /\ raised' = [error |-> r.error]
               /\ UNCHANGED selectVars
          ELSE /\ ranked_stories' = r.ranked
               /\ top_stories' = SelectTopStories(r.ranked, top_count, min_scores[1])
               /\ secondary_stories' =
                      SelectSecondaryStories(r.ranked,
                          SelectTopStories(r.ranked, top_count, min_scores[1]),
                          secondary_count, min_scores[2])
               /\ args' = [ranked |-> r.ranked, top_count |-> top_count,
                           min_score_top |-> min_scores[1],
                           secondary_count |-> secondary_count,
                           min_score_secondary |-> min_scores[2],
                           keywords |-> keywords, now |-> now]
               /\ stage' = "secondary"
               /\ UNCHANGED raised
    /\ UNCHANGED <<dedupeVars, scoreVars, storeVars>>

(***************************************************************************)
(* Configuration: Deduplicator.__init__ and the ranking weights            *)
(***************************************************************************)
\* Configured duplicate thresholds (0.82, 0.0, 1.5) and story chain
\* thresholds (0.68, 0.875), valid and invalid, in 1/200.
ConfigThresholds == {164, 0, 300}

ConfigChainThresholds == {136, 175}

\* Configured ranking weights, in 1/100: the defaults, and a negative weight.
ConfigWeightDicts == {DefaultWeights, [DefaultWeights EXCEPT !.recency = -30]}

\* Deduplicator.__init__: the error it raises ("" for none) and the fields
\* of the object.  The arguments are stored as they are passed.
DeduplicatorInit(tau, ctau) ==
    [error |-> "", threshold |-> tau, story_chain_threshold |-> ctau]

\* The state after Deduplicator(embedding_model, threshold,
\* story_chain_threshold) with configured values.
InitConfig ==
    /\ \E tau \in ConfigThresholds, ctau \in ConfigChainThresholds :
          \E r \in {DeduplicatorInit(tau, ctau)} :
              /\ threshold = r.threshold
              /\ story_chain_threshold = r.story_chain_threshold
              /\ raised = [error |-> r.error]
    /\ input = <<>>
    /\ items = <<>>
    /\ calls = 0
    /\ mode = FALSE
    /\ out = <<>>
    /\ labels = <<>>
    /\ groups = <<>>
    /\ prev = NoRun
    /\ embed_calls = <<>>
    /\ ranked_stories = <<>>
    /\ top_stories = <<>>
    /\ secondary_stories = <<>>
    /\ stage = "ranked"
    /\ args = NoArgs
    /\ scored = NoScore
    /\ store = NoStore
    /\ disk = NoDisk
    /\ added = NoneAdded
    /\ saved = NoSave

\* calculate_composite_score on an item deduplicate returned, with the
\* configured weights.
ScoreConfigured ==
    /\ calls = 1
    /\ ~scored.called
    /\ raised = NoError
    /\ \E k \in 1..Len(out), weights \in ConfigWeightDicts :
          scored' = [called |-> TRUE, item |-> items[out[k]], weights |-> weights,
                     time_window_hours |-> TimeWindowOf(mode), keywords |-> <<>>,
                     now |-> 20,
                     result |-> CalculateCompositeScore(items[out[k]], weights,
                                                        TimeWindowOf(mode), <<>>, 20)]
    /\ UNCHANGED <<dedupeVars, selectVars, storeVars, raised>>

(***************************************************************************)
(* Specifications                                                          *)
(***************************************************************************)
\* Ingestion appends one more item to the list that will be deduplicated.
Ingest ==
    /\ calls = 0
    /\ Len(input) < MaxItems
    /\ \E x \in ItemChoices(Len(input) + 1, input) : input' = Append(input, x)
    /\ items' = input'
    /\ UNCHANGED <<threshold, story_chain_threshold, calls, mode, out, labels,
                   groups, prev, embed_calls>>
    /\ UNCHANGED selectVars
    /\ UNCHANGED <<scoreVars, storeVars, raised>>

InitWith(thresholds) ==
    /\ input = <<>>
    /\ items = <<>>
    /\ threshold \in thresholds
    /\ story_chain_threshold \in ChainThresholds
    /\ calls = 0
    /\ mode = FALSE
    /\ out = <<>>
    /\ labels = <<>>
    /\ groups = <<>>
    /\ prev = NoRun
    /\ embed_calls = <<>>
    /\ ranked_stories = <<>>
    /\ top_stories = <<>>
    /\ secondary_stories = <<>>
    /\ stage = "ranked"
    /\ args = NoArgs
    /\ scored = NoScore
    /\ store = NoStore
    /\ disk = NoDisk
    /\ added = NoneAdded
    /\ saved = NoSave
    /\ raised = NoError

Init == InitWith(DupThresholds)

Next ==
    \/ Ingest
    \/ \E m \in BOOLEAN : Deduplicate(m)
    \/ Rerun

\* Lists of up to MaxItems items of any text, credibility and time, one
\* Deduplicator, deduplicated once or twice.
Spec == Init /\ [][Next]_vars

\* Ingestion of one more article of a single day from feeds without a
\* credibility: only the texts vary.
IngestSameDay ==
    /\ calls = 0
    /\ Len(input) < MaxItems + 1
    /\ \E t \in Texts : input' = Append(input, NewItem(Len(input) + 1, t, <<>>, 0))
    /\ items' = input'
    /\ UNCHANGED <<threshold, story_chain_threshold, calls, mode, out, labels,
                   groups, prev, embed_calls>>
    /\ UNCHANGED selectVars
    /\ UNCHANGED <<scoreVars, storeVars, raised>>

InitThresholds == InitWith(AllThresholds)

NextThresholds ==
    \/ IngestSameDay
    \/ \E m \in BOOLEAN : Deduplicate(m)
    \/ RerunWithThreshold

\* Lists of up to MaxItems + 1 same-day items, deduplicated by two
\* Deduplicators of any two duplicate thresholds.
SpecThresholds == InitThresholds /\ [][NextThresholds]_vars

NextSelect ==
    \/ AppendRanked
    \/ \E top_count \in Counts, min_score \in MinScores : SelectTop(top_count, min_score)
    \/ \E secondary_count \in Counts, min_score \in MinScores :
           SelectSecondary(secondary_count, min_score)

\* Any list of up to MaxRanked ranked stories, then the two selections with
\* any counts and minimum scores.
SpecSelect == Init /\ [][NextSelect]_vars

(***************************************************************************)
(* The scoring functions on single items.                                  *)
(***************************************************************************)
NextScore == ScoreItem

SpecScore == Init /\ [][NextScore]_vars

(***************************************************************************)
(* The pipeline from ingestion to selection.                               *)
(***************************************************************************)
NextPipeline ==
    \/ Ingest
    \/ \E m \in BOOLEAN : Deduplicate(m)
    \/ \E keywords \in PipelineKeywords, now \in PipelineNows,
          top_count \in PipelineCounts, secondary_count \in PipelineCounts,
          min_scores \in PipelineMinScores :
          RankAndSelect(keywords, now, top_count, secondary_count, min_scores)

SpecPipeline == Init /\ [][NextPipeline]_vars

(***************************************************************************)
(* Deduplication with an embedding provider that can fail.                 *)
(***************************************************************************)
NextEmbedError ==
    \/ Ingest
    \/ \E m \in BOOLEAN : Deduplicate(m)
    \/ \E m \in BOOLEAN : DeduplicateEmbedRaises(m)

SpecEmbedError == Init /\ [][NextEmbedError]_vars

(***************************************************************************)
(* The vector store.                                                       *)
(***************************************************************************)
NextStore == NewVectorStore \/ Add \/ Search

SpecStore == Init /\ [][NextStore]_vars

\* The vector store of a run's items, saved to and loaded from disk.
NextPersist ==
    \/ NewVectorStore
    \/ FreshVectorStore
    \/ AddItems
    \/ Save
    \/ Load
    \/ RemoveArtifact

SpecPersist == Init /\ [][NextPersist]_vars

\* A Deduplicator of any configured thresholds on same-day lists in chain
\* mode, and the scoring of what it returns with the configured weights.
NextConfig ==
    \/ IngestSameDay
    \/ Deduplicate(TRUE)
    \/ ScoreConfigured

SpecConfig == InitConfig /\ [][NextConfig]_vars

(***************************************************************************)
(* Properties of deduplication                                             *)
(***************************************************************************)
StandardRun == calls >= 1 /\ mode = FALSE /\ input # <<>>

ChainRun == calls >= 1 /\ mode = TRUE /\ input # <<>>

\* The members of the cluster of item k, in input order.
Members(k) == ClusterIndices(labels, labels[k])

UrlsOf(seq) == [k \in 1..Len(seq) |-> input[seq[k]].url]

OneRepresentativePerCluster ==
    /\ Len(out) = Cardinality(Range(labels))
    /\ \A c \in Range(labels) :
           Cardinality({k \in 1..Len(out) : labels[out[k]] = c}) = 1

\* C1 as claimed: in standard mode one item is returned per cluster, and its
\* duplicates list is the urls of all the other members of its cluster, in
\* input order.
C1_AllOtherMembers ==
    StandardRun =>
        /\ OneRepresentativePerCluster
        /\ \A k \in 1..Len(out) :
               items[out[k]].duplicates =
                   UrlsOf(SelectSeq(Members(out[k]), LAMBDA x : x # out[k]))

\* C1 as amended: in standard mode one item is returned per cluster, and its
\* duplicates list is the urls, in input order, of the members of its cluster
\* whose id differs from its own; these are all the other members (cluster
\* size minus one entries) when the ids in the cluster are pairwise distinct.
C1_OtherIds ==
    StandardRun =>
        /\ OneRepresentativePerCluster
        /\ \A k \in 1..Len(out) :
               LET rep == out[k]
                   members == Members(rep)
                   distinctIds == \A x, y \in Range(members) :
                                      x # y => input[x].id # input[y].id
               IN /\ items[rep].duplicates =
                         UrlsOf(SelectSeq(members,
                                          LAMBDA x : input[x].id # input[rep].id))
                  /\ distinctIds =>
                         /\ Len(items[rep].duplicates) = Len(members) - 1
                         /\ items[rep].duplicates =
                                UrlsOf(SelectSeq(members, LAMBDA x : x # rep))

\* A cluster of three items with distinct ids whose representative is not its
\* first member.
C1_Witness ==
    /\ StandardRun
    /\ \E k \in 1..Len(out) :
           /\ Len(Members(out[k])) = 3
           /\ out[k] # Members(out[k])[1]
           /\ \A x, y \in Range(Members(out[k])) : x # y => input[x].id # input[y].id
           /\ Len(items[out[k]].duplicates) = 2

\* C2: in standard mode two items whose similarity is at least the duplicate
\* threshold are in one cluster, so at most one of them is returned.
C2_SimilarPairsShareCluster ==
    StandardRun =>
        \A i, j \in 1..Len(input) :
            (i # j /\ Sim(input[i], input[j]) >= threshold) =>
                /\ labels[i] = labels[j]
                /\ ~(i \in Range(out) /\ j \in Range(out))

\* C3: in chain mode, when founder i is processed, a later unprocessed item j
\* of similarity at least the duplicate threshold and published less than a
\* day from i, before or after it, is absorbed as a duplicate of i.
C3_SameDayAbsorbed ==
    ChainRun =>
        \A g \in 1..Len(groups) : \A j \in groups[g].unprocessed :
            LET i == groups[g].founder
            IN (/\ Sim(input[i], input[j]) >= threshold
                /\ Abs(input[i].pub - input[j].pub) < 24)
               => j \in Range(groups[g].duplicates)

\* C4: in chain mode, for every founder whose chain has at least two members
\* the kept representative and every chain member that is returned carry one
\* and the same chain id, which is not None.
C4_OneIdPerChain ==
    ChainRun =>
        \A g \in 1..Len(groups) :
            Len(groups[g].chain_members) >= 2 =>
                /\ items[groups[g].best].story_chain_id # None
                /\ \A m \in Range(groups[g].chain_members) \cap Range(out) :
                       items[m].story_chain_id = items[groups[g].best].story_chain_id

\* The calls of _select_best_item of the last run: <<candidates, chosen>>.
Selections ==
    IF mode
    THEN {<<(<<groups[g].founder>> \o groups[g].duplicates), groups[g].best>> :
             g \in 1..Len(groups)}
    ELSE {<<Members(out[k]), out[k]>> : k \in 1..Len(out)}

CredOrHalf(a) == IF a.engagement = <<>> THEN 50 ELSE a.engagement[1]

\* C5: _select_best_item returns a candidate of maximal credibility (0.5 when
\* absent) and, among those of maximal credibility, of the latest
\* published_at.
C5_MostCredibleThenMostRecent ==
    calls >= 1 =>
        \A s \in Selections :
            /\ s[2] \in Range(s[1])
            /\ \A x \in Range(s[1]) :
                   /\ CredOrHalf(input[x]) <= CredOrHalf(input[s[2]])
                   /\ CredOrHalf(input[x]) = CredOrHalf(input[s[2]])
                          => input[x].pub <= input[s[2]].pub

\* An item without a credibility is chosen, though not first in the list,
\* over an older item of credibility 0.5.
C5_Witness ==
    /\ calls >= 1
    /\ \E s \in Selections :
           /\ Len(s[1]) >= 2
           /\ s[2] # s[1][1]
           /\ input[s[2]].engagement = <<>>
           /\ \E x \in Range(s[1]) :
                  input[x].engagement = <<50>> /\ input[x].pub < input[s[2]].pub

Orderings(seq) ==
    {p \in [1..Len(seq) -> Range(seq)] :
        \A a, b \in 1..Len(seq) : a # b => p[a] # p[b]}

\* C6: the chosen representative is the same item in whatever order the
\* candidates are listed.
C6_OrderIndependent ==
    calls >= 1 =>
        \A s \in Selections : \A p \in Orderings(s[1]) :
            input[SelectBestItem(p, input)].id = input[s[2]].id

C8_ThresholdMonotone ==
    (calls = 2 /\ prev.threshold <= threshold) =>
        Len(input) - Len(out) <= prev.n - Len(prev.result)

(***************************************************************************)
(* Properties of selection                                                 *)
(***************************************************************************)
\* C9: no news_item.id occurs both in the top stories and in the secondary
\* stories selected for them, whatever the list, counts and minimum scores.
C9_Disjoint ==
    stage = "secondary" =>
        \A a \in 1..Len(top_stories) : \A b \in 1..Len(secondary_stories) :
            top_stories[a].id # secondary_stories[b].id

\* Both selections are non-empty, and the id of a top story occurs again in
\* the ranked list, with a score that qualifies it as secondary.
C9_Witness ==
    /\ stage = "secondary"
    /\ top_stories # <<>>
    /\ secondary_stories # <<>>
    /\ \E p \in 1..Len(ranked_stories) :
           /\ ranked_stories[p].id = top_stories[1].id
           /\ ranked_stories[p] # top_stories[1]
           /\ ranked_stories[p].score >= args.min_score_secondary

\* The positions of the stories of ranked with score >= min_score.
Qualifying(ranked, min_score) ==
    {p \in 1..Len(ranked) : ranked[p].score >= min_score}

\* The k-th smallest element of a set of positions.
KthOf(Q, k) == CHOOSE p \in Q : Cardinality({q \in Q : q < p}) = k - 1

\* C10: for top_count >= 0, select_top_stories returns the first top_count
\* (or all, if fewer) of the stories with score >= min_score, in ranked order,
\* and leaves the list it was given as it was.
C10_TopIsPrefixOfQualifying ==
    (stage \in {"top", "secondary"} /\ args.top_count >= 0) =>
        LET Q == Qualifying(args.ranked, args.min_score_top)
        IN /\ ranked_stories = args.ranked
           /\ Len(top_stories) =
                  (IF args.top_count < Cardinality(Q) THEN args.top_count
                   ELSE Cardinality(Q))
           /\ Len(top_stories) <= args.top_count
           /\ \A k \in 1..Len(top_stories) :
                  /\ top_stories[k] = args.ranked[KthOf(Q, k)]
                  /\ top_stories[k].score >= args.min_score_top

\* Top selection of a list that is not sorted: it skipped a story below the
\* minimum and, for lack of room, left out a story of a higher score than
\* the one it took.
C10_Witness ==
    /\ stage = "top"
    /\ args.top_count = 1
    /\ Len(top_stories) = 1
    /\ Cardinality(Qualifying(ranked_stories, args.min_score_top)) = 2
    /\ ranked_stories[1].score < args.min_score_top
    /\ \E p \in 1..Len(ranked_stories) : ranked_stories[p].score > top_stories[1].score


\* The positions of the stories of ranked that are secondary candidates:
\* their id is the id of no story of top and their score is >= min_score.
SecondaryCandidates(ranked, top, min_score) ==
    {p \in 1..Len(ranked) :
        /\ \A t \in 1..Len(top) : ranked[p].id # top[t].id
        /\ ranked[p].score >= min_score}

\* C11: for secondary_count >= 0, select_secondary_stories returns the first
\* secondary_count (or all, if fewer) of the ranked stories whose id is not
\* the id of a top story and whose score is >= min_score, in ranked order.
C11_SecondaryIsPrefixOfCandidates ==
    (stage = "secondary" /\ args.secondary_count >= 0) =>
        LET Q == SecondaryCandidates(ranked_stories, top_stories,
                                     args.min_score_secondary)
        IN /\ Len(secondary_stories) =
                  (IF args.secondary_count < Cardinality(Q) THEN args.secondary_count
                   ELSE Cardinality(Q))
           /\ \A k \in 1..Len(secondary_stories) :
                  secondary_stories[k] = ranked_stories[KthOf(Q, k)]

\* One secondary story is taken of two candidates; the first story of the
\* list is a top story and is passed over.
C11_Witness ==
    /\ stage = "secondary"
    /\ args.secondary_count = 1
    /\ Len(secondary_stories) = 1
    /\ top_stories # <<>>
    /\ ranked_stories[1].id = top_stories[1].id
    /\ Cardinality(SecondaryCandidates(ranked_stories, top_stories,
                                       args.min_score_secondary)) = 2

(***************************************************************************)
(* Properties of ranking                                                   *)
(***************************************************************************)
\* The list rank_stories was given: what deduplicate returned.
RankInput == Returned(items, out)

\* C12: for a non-empty list rank_stories returns one RankedStory per item
\* of the list, none dropped and none twice, with scores that do not
\* increase along the list.
C12_OneStoryPerItemInScoreOrder ==
    (stage = "secondary" /\ RankInput # <<>>) =>
        /\ Len(ranked_stories) = Len(RankInput)
        /\ {ranked_stories[p].news_item : p \in 1..Len(ranked_stories)}
               = 1..Len(RankInput)
        /\ \A p \in 1..Len(ranked_stories) :
               ranked_stories[p].id = RankInput[ranked_stories[p].news_item].id
        /\ \A p \in 1..(Len(ranked_stories) - 1) :
               ranked_stories[p].score >= ranked_stories[p + 1].score

\* Three items were ranked, and the one of the highest score was not the
\* first of the list.
C12_Witness ==
    /\ stage = "secondary"
    /\ Len(RankInput) = 3
    /\ ranked_stories[1].news_item # 1
    /\ ranked_stories[1].score > ranked_stories[2].score
    /\ ranked_stories[2].score > ranked_stories[3].score

\* The ids of the stories of a ranked list, in order.
IdsOf(ranked) == [p \in 1..Len(ranked) |-> ranked[p].id]

\* C13: of two stories of equal score rank_stories places first the one of
\* higher credibility and, at equal credibility, the one published later,
\* and the ranked order is the same for every order of the input list.
C13_TiesByCredibilityThenRecency ==
    (stage = "secondary" /\ RankInput # <<>>) =>
        /\ \A p, q \in 1..Len(ranked_stories) :
               (p < q /\ ranked_stories[p].score = ranked_stories[q].score) =>
                   LET a == RankInput[ranked_stories[p].news_item]
                       b == RankInput[ranked_stories[q].news_item]
                   IN \/ CredOrHalf(a) > CredOrHalf(b)
                      \/ CredOrHalf(a) = CredOrHalf(b) /\ a.pub >= b.pub
        /\ \A its \in Orderings(RankInput) :
               IdsOf(RankStories(its, DefaultWeights, TimeWindowOf(mode),
                                 args.keywords, args.now).ranked)
                   = IdsOf(ranked_stories)

\* C14: the ranking and selection stage raises for no list, and for the
\* empty list it yields an empty top list and an empty secondary list.
C14_StageNeverRaises ==
    /\ raised.error = ""
    /\ (calls = 1 /\ out = <<>>) =>
           (stage = "secondary" => top_stories = <<>> /\ secondary_stories = <<>>)

(***************************************************************************)
(* Properties of deduplication: errors, own urls                           *)
(***************************************************************************)
\* C15: when the embedding provider raises during deduplicate, the call
\* raises, no list is returned, and every item of the list has the
\* duplicates and the story_chain_id it had before the call.
C15_EmbedErrorLeavesItemsAsTheyWere ==
    raised.error = "EmbeddingError" =>
        /\ out = raised.out
        /\ Len(items) = Len(raised.before)
        /\ \A k \in 1..Len(items) :
               /\ items[k].duplicates = raised.before[k].duplicates
               /\ items[k].story_chain_id = raised.before[k].story_chain_id

\* The provider raised in a call on a list in which one item carried
\* duplicates and one a chain id.
C15_Witness ==
    /\ raised.error = "EmbeddingError"
    /\ \E k \in 1..Len(items) : raised.before[k].duplicates # <<>>
    /\ \E k \in 1..Len(items) : raised.before[k].story_chain_id # None

(***************************************************************************)
(* ------------------------------------------------------------------------*)
\* C16: after deduplicate returns, in either mode, no returned item has its
\* own url in its duplicates list, also when items of the list share a url
\* (and with it the id).
C16_OwnUrlNotInDuplicates ==
    calls >= 1 =>
        \A k \in 1..Len(out) :
            \A d \in 1..Len(items[out[k]].duplicates) :
                items[out[k]].duplicates[d] # items[out[k]].url

\* A chain-mode run in which the kept item of a founder absorbed both an
\* item of its own url and an item of another url.
C16_Witness ==
    /\ ChainRun
    /\ \E g \in 1..Len(groups) :
           LET b == groups[g].best
               absorbed == ({groups[g].founder} \cup Range(groups[g].duplicates)) \ {b}
           IN /\ b \in Range(out)
              /\ \E x \in absorbed : input[x].url = input[b].url
              /\ \E x \in absorbed : input[x].url # input[b].url
              /\ Len(items[b].duplicates) = 1

(***************************************************************************)
(* Properties of scoring                                                   *)
(***************************************************************************)
\* The scored item with m recorded duplicates instead of its own.
WithDuplicates(item, m) == [item EXCEPT !.duplicates = [k \in 1..m |-> k + 1]]

\* C17: for an item with n recorded duplicates calculate_uniqueness_score
\* returns exactly 1/(n+1): 1.0 for n = 0 and 0.25 for n = 3; the value lies
\* in (0,1] and is strictly smaller for every larger n.
C17_UniquenessIsInverseClusterSize ==
    scored.called =>
        LET n == Len(scored.item.duplicates)
            u == scored.result.uniqueness_score
        IN /\ u * (n + 1) = One
           /\ n = 0 => u = One
           /\ n = 3 => 4 * u = One
           /\ 0 < u /\ u <= One
           /\ \A m \in 0..(MaxDuplicates + 1) :
                  m > n => CalculateUniquenessScore(WithDuplicates(scored.item, m)) < u

\* An item with three recorded duplicates scored 0.25.
C17_Witness ==
    /\ scored.called
    /\ Len(scored.item.duplicates) = 3
    /\ 4 * scored.result.uniqueness_score = One

\* The age at which the last item was scored, negative ages counting as 0.
ScoredAge == Max(0, scored.now - scored.item.pub)

\* The scored item as published age hours before the moment of scoring.
AtAge(age) == [scored.item EXCEPT !.pub = scored.now - age]

\* C18: for a positive time window calculate_recency_score returns 1.0 when
\* the age is at most the window (a negative age counting as 0) and, when the
\* age exceeds the window, a value below 1.0 and not below 0; the value does
\* not increase with the age.
C18_RecencyFullWithinWindowThenDecays ==
    scored.called =>
        LET w == scored.time_window_hours
            r == scored.result.recency_score
        IN /\ w > 0
           /\ ScoredAge <= w => r = One
           /\ ScoredAge > w => (0 <= r /\ r < One)
           /\ \A age \in AgesFor(w) :
                  age >= ScoredAge =>
                      CalculateRecencyScore(AtAge(age), scored.now, w) <= r

\* An item exactly at the edge of the window scored 1.0, and the first age
\* past the edge scores below it.
C18_Witness ==
    /\ scored.called
    /\ ScoredAge = scored.time_window_hours
    /\ scored.result.recency_score = One
    /\ \E age \in AgesFor(scored.time_window_hours) :
           /\ age > ScoredAge
           /\ CalculateRecencyScore(AtAge(age), scored.now,
                                    scored.time_window_hours) < One

\* C19: for a stored credibility in [0,1] or absent, any keyword list and the
\* default weights, the five component scores are each in [0,1] and the
\* composite score is their weighted sum with the weights 0.30, 0.25, 0.15,
\* 0.15, 0.15 and is in [0,1].
C19_ScoresWithinUnitInterval ==
    scored.called =>
        LET s == scored.result
        IN /\ \A c \in {s.recency_score, s.credibility_score, s.engagement_score,
                        s.uniqueness_score, s.relevance_score} : 0 <= c /\ c <= One
           /\ s.score = 30 * s.recency_score + 25 * s.credibility_score
                        + 15 * s.engagement_score + 15 * s.uniqueness_score
                        + 15 * s.relevance_score
           /\ 0 <= s.score /\ s.score <= 100 * One

\* An item of credibility 1.0 without duplicates, within the window, scored
\* against two keywords it both contains: every component but engagement
\* is 1.0.
C19_Witness ==
    /\ scored.called
    /\ Len(scored.keywords) = 2
    /\ scored.result.recency_score = One
    /\ scored.result.credibility_score = One
    /\ scored.result.uniqueness_score = One
    /\ scored.result.relevance_score = One
    /\ scored.result.score > 90 * One

(***************************************************************************)
(* Properties of the vector store                                          *)
(***************************************************************************)
\* The last call on the store was add.
AddCalled == "call" \in DOMAIN raised /\ raised.call = "add"

\* C20: add fails with an error when the number of vectors differs from the
\* number of metadata records, or when the dimension of the vectors differs
\* from the dimension of the index; size() and the metadata list are then as
\* they were before the call.
C20_AddRejectsMismatch ==
    AddCalled =>
        LET e == raised.embeddings
            counts_differ == e.shape[1] # Len(raised.metadata)
            dimensions_differ == Len(e.shape) = 2 /\ e.shape[2] # raised.before.dimension
        IN (counts_differ \/ dimensions_differ) =>
               /\ raised.error # ""
               /\ Size(store) = Size(raised.before)
               /\ store.metadata = raised.before.metadata

\* A store that holds vectors was given as many vectors as metadata records,
\* of another dimension, and the add failed.
C20_Witness ==
    /\ AddCalled
    /\ Size(raised.before) > 0
    /\ Len(raised.embeddings.shape) = 2
    /\ raised.embeddings.shape[1] = Len(raised.metadata)
    /\ Len(raised.metadata) > 0
    /\ raised.embeddings.shape[2] # raised.before.dimension
    /\ raised.error = "ValueError"

\* C21: after any sequence of add calls, successful or failing, and search
\* calls, size() is the number of vectors passed in the successful adds and
\* the length of the metadata list; the index holds exactly those vectors in
\* the order they were passed, a vector equal to a stored one included, and
\* the metadata list exactly their metadata.
C21_SizeCountsSuccessfulAdds ==
    store # NoStore =>
        /\ Size(store) = Len(added.rows)
        /\ Size(store) = Len(store.metadata)
        /\ store.index = added.rows
        /\ store.metadata = added.metadata

\* The store holds three vectors, two of them equal, and the last add, with
\* more metadata records than vectors, failed.
C21_Witness ==
    /\ AddCalled
    /\ raised.error = "ValueError"
    /\ Len(raised.metadata) > raised.embeddings.shape[1]
    /\ Size(store) = 3
    /\ \E i, j \in 1..Size(store) : i < j /\ store.index[i] = store.index[j]
    /\ store.index[1] # store.index[2]

\* The last call on the store was search.
SearchCalled == "call" \in DOMAIN raised /\ raised.call = "search"

\* The pairs of the list are the metadata and similarities of different
\* entries of the store s for the query text.
PairsOfEntries(s, text, results) ==
    \E f \in [1..Len(results) -> 1..Size(s)] :
        /\ \A p, q \in 1..Len(results) : p # q => f[p] # f[q]
        /\ \A p \in 1..Len(results) :
              /\ results[p].metadata = s.metadata[f[p]]
              /\ results[p].similarity = 200 - SquaredL2(text, s.index[f[p]])

\* C22: search with a query vector of the index dimension returns at most
\* min(k, size()) (metadata, similarity) pairs in non-increasing order of
\* similarity, each the metadata and the similarity of an entry of the
\* store, none below the threshold when one is given; a query of another
\* dimension raises an error.
C22_SearchReturnsNearestInOrder ==
    SearchCalled =>
        LET s == raised.before
            q == raised.query_embedding
            results == raised.results
        IN IF q.shape = <<s.dimension>>
           THEN /\ raised.error = ""
                /\ Len(results) <= Min(raised.k, Size(s))
                /\ \A p \in 1..(Len(results) - 1) :
                      results[p].similarity >= results[p + 1].similarity
                /\ PairsOfEntries(s, q.text, results)
                /\ raised.threshold # None =>
                      \A p \in 1..Len(results) :
                          results[p].similarity >= raised.threshold[1]
           ELSE raised.error # ""

\* A search for more than two vectors with a threshold on a store of three
\* returned two pairs and left out the third for its similarity.
C22_Witness ==
    /\ SearchCalled
    /\ raised.error = ""
    /\ raised.threshold # None
    /\ raised.k > 2
    /\ Size(raised.before) = 3
    /\ Len(raised.results) = 2
    /\ raised.results[1].similarity >= raised.threshold[1]

\* The last call on the store was load.
LoadCalled == "call" \in DOMAIN raised /\ raised.call = "load"

\* A store as VectorStore(dimension) makes it.
IsFresh(s) == s = VectorStoreInit(s.dimension)

\* The store accepts the vectors of items and queries of its dimension.
AcceptsAddAndSearch(s) ==
    /\ \A e \in ItemArrays(s.dimension) :
          LET r == VectorStoreAdd(s, e, ItemMetadata(e.rows))
          IN r.error = "" /\ Size(r.store) = Len(e.rows)
    /\ \A q \in QueryEmbeddings, k \in SearchKs, tau \in SearchThresholds :
          q.shape = <<s.dimension>> => VectorStoreSearch(s, q, k, tau).error = ""

\* C23: load on a path whose index artifact or metadata artifact is missing
\* does not raise and leaves the vectors and the metadata list of the store
\* as they were; a fresh store then still has size() = 0 and accepts add and
\* search.
C23_LoadOfMissingArtifactsIsNoOp ==
    (LoadCalled /\ (~raised.index_exists \/ ~raised.metadata_exists)) =>
        /\ raised.error = ""
        /\ store.index = raised.before.index
        /\ store.metadata = raised.before.metadata
        /\ store = raised.before
        /\ IsFresh(raised.before) => (Size(store) = 0 /\ AcceptsAddAndSearch(store))

\* load on a fresh store found the index artifact, holding vectors, without
\* the metadata artifact.
C23_Witness ==
    /\ LoadCalled
    /\ raised.index_exists
    /\ ~raised.metadata_exists
    /\ IsFresh(raised.before)
    /\ \E f \in disk.index :
          /\ f.path = WithSuffix(raised.filepath, ".index")
          /\ Len(f.data.rows) > 0

\* C24: save(path) followed by load(path) into a fresh store of the same
\* dimension gives a store of the same size() and the same metadata list,
\* and every query returns from it the list it returns from the store saved.
C24_SaveLoadRoundTrip ==
    (/\ LoadCalled
     /\ saved.called
     /\ raised.filepath = saved.filepath
     /\ IsFresh(raised.before)
     /\ raised.before.dimension = saved.store.dimension) =>
        /\ Size(store) = Size(saved.store)
        /\ store.metadata = saved.store.metadata
        /\ \A q \in QueryEmbeddings, k \in SearchKs, tau \in SearchThresholds :
              VectorStoreSearch(store, q, k, tau)
                  = VectorStoreSearch(saved.store, q, k, tau)

\* A store of three vectors built by adds was saved and loaded from the same
\* path into a fresh store of the same dimension.
C24_Witness ==
    /\ LoadCalled
    /\ saved.called
    /\ raised.filepath = saved.filepath
    /\ IsFresh(raised.before)
    /\ raised.before.dimension = saved.store.dimension
    /\ saved.store.d = saved.store.dimension
    /\ Size(saved.store) = 3
    /\ Size(store) = 3

(***************************************************************************)
(* Properties of the configuration                                         *)
(***************************************************************************)
\* Thresholds outside (0,1), or a chain threshold at or above the duplicate
\* threshold.
InvalidThresholds(tau, ctau) ==
    \/ tau <= 0 \/ tau >= 200
    \/ ctau <= 0 \/ ctau >= 200
    \/ ctau >= tau

NegativeWeight(weights) == \E key \in DOMAIN weights : weights[key] < 0

\* C25: a Deduplicator with a duplicate or chain threshold outside (0,1), or
\* with a chain threshold at or above the duplicate threshold, is rejected
\* with an error at construction and clusters no item; nothing is scored
\* with a negative weight.
C25_InvalidConfigurationRejected ==
    /\ InvalidThresholds(threshold, story_chain_threshold) =>
          (raised.error # "" /\ calls = 0)
    /\ scored.called => ~NegativeWeight(scored.weights)

(***************************************************************************)
(* Properties of deduplication: the embedding provider, story chains       *)
(***************************************************************************)
\* C26: every call of deduplicate with a non-empty list calls the embedding
\* provider exactly once, with one text per item, the title followed by
\* the content_snippet, in the order of the list, and with the items as
\* they were on entry; a call with the empty list returns the empty list
\* and does not call the provider.
C26_EmbedOncePerRun ==
    /\ Len(embed_calls) = (IF input = <<>> THEN 0 ELSE calls)
    /\ \A c \in 1..Len(embed_calls) :
          /\ Len(embed_calls[c].texts) = Len(input)
          /\ \A k \in 1..Len(input) :
                embed_calls[c].texts[k]
                    = <<input[k].title, " ", input[k].content_snippet>>
          /\ embed_calls[c].items = input
    /\ (calls >= 1 /\ input = <<>>) => out = <<>>

\* Three items, two of them with the same title and different snippets,
\* were deduplicated twice, and the first run had recorded duplicates.
C26_Witness ==
    /\ calls = 2
    /\ Len(input) = 3
    /\ Len(embed_calls) = 2
    /\ \E j, k \in 1..3 : /\ input[j].title = input[k].title
                          /\ input[j].content_snippet # input[k].content_snippet
    /\ \E k \in 1..Len(prev.result) : prev.result[k].duplicates # <<>>

\* The passes of the last chain-mode run that found a chain.
Chains == {g \in 1..Len(groups) : Len(groups[g].chain_members) >= 2}

\* C27: in a chain-mode run, two chains founded by different kept
\* representatives get different chain ids.
C27_DistinctChainsDistinctIds ==
    ChainRun =>
        \A g, h \in Chains :
            groups[g].best # groups[h].best =>
                ChainId(input[groups[g].best]) # ChainId(input[groups[h].best])

\* The ids and urls of the input are pairwise distinct.
DistinctIdsAndUrls ==
    \A j, k \in 1..Len(input) :
        j # k => input[j].id # input[k].id /\ input[j].url # input[k].url

\* The number of places of the returned list that hold item k, and the
\* number of entries of the duplicates lists of returned items that are the
\* url of item k.
TimesReturned(k) == Cardinality({p \in 1..Len(out) : out[p] = k})

TimesRecorded(k) ==
    Cardinality({<<p, q>> \in (1..Len(out)) \X (1..Len(input)) :
                    /\ q <= Len(items[out[p]].duplicates)
                    /\ items[out[p]].duplicates[q] = input[k].url})

RECURSIVE TotalDuplicates(_)
TotalDuplicates(p) ==
    IF p = 0 THEN 0 ELSE Len(items[out[p]].duplicates) + TotalDuplicates(p - 1)

\* C28: in chain mode, when the ids and urls of the input are pairwise
\* distinct, every input item is either returned, exactly once, or has its
\* url in the duplicates of exactly one returned item, not both and not
\* neither; the length of the returned list plus the lengths of the
\* duplicates lists of its items is the length of the input.
C28_ChainModePartitionsInput ==
    (ChainRun /\ DistinctIdsAndUrls) =>
        /\ \A k \in 1..Len(input) :
              \/ TimesReturned(k) = 1 /\ TimesRecorded(k) = 0
              \/ TimesReturned(k) = 0 /\ TimesRecorded(k) = 1
        /\ Len(out) + TotalDuplicates(Len(out)) = Len(input)

\* Three items of distinct urls: one absorbed as a duplicate, the other two
\* returned, one of them founder of a chain.
C28_Witness ==
    /\ ChainRun
    /\ DistinctIdsAndUrls
    /\ Len(input) = 3
    /\ Len(out) = 2
    /\ Chains # {}
    /\ \E p \in 1..Len(out) : Len(items[out[p]].duplicates) = 1

\* C29: after a chain-mode run on items without a chain id, every chain id
\* carried by a returned item is carried by at least two returned items.
C29_NoChainOfOne ==
    ChainRun =>
        \A p \in 1..Len(out) :
            items[out[p]].story_chain_id # None =>
                \E q \in 1..Len(out) :
                    /\ q # p
                    /\ items[out[q]].story_chain_id = items[out[p]].story_chain_id

(***************************************************************************)
(* Properties of selection: top against secondary                          *)
(***************************************************************************)
\* The list is in non-increasing order of score, with pairwise distinct ids.
SortedWithDistinctIds(ranked) ==
    /\ \A p \in 1..(Len(ranked) - 1) : ranked[p].score >= ranked[p + 1].score
    /\ \A p, q \in 1..Len(ranked) : p # q => ranked[p].id # ranked[q].id

\* C30: for a list in non-increasing order of score with pairwise distinct
\* ids, any counts and any two minimum scores, every story select_top_stories
\* returns has a score at least that of every story select_secondary_stories
\* returns for that top list.
C30_TopScoresAtLeastSecondary ==
    (stage = "secondary" /\ SortedWithDistinctIds(ranked_stories)) =>
        \A a \in 1..Len(top_stories) : \A b \in 1..Len(secondary_stories) :
            top_stories[a].score >= secondary_stories[b].score

\* Of three stories of different scores the first is the top story and the
\* second, which qualified as a top story too, is a secondary story.
C30_Witness ==
    /\ stage = "secondary"
    /\ SortedWithDistinctIds(ranked_stories)
    /\ Len(ranked_stories) = 3
    /\ ranked_stories[1].score > ranked_stories[2].score
    /\ ranked_stories[2].score > ranked_stories[3].score
    /\ top_stories = <<ranked_stories[1]>>
    /\ ranked_stories[2].score >= args.min_score_top
    /\ secondary_stories # <<>>
    /\ secondary_stories[1] = ranked_stories[2]
====
